---------------------------- MODULE Spec2Model ----------------------------
(***************************************************************************)
(* The transcript stream reader of datasources/transcript.py               *)
(* (TranscriptStreamReader): a corpus of conversations, a cursor kept in   *)
(* instance fields, and read(start), which restores the cursor from an     *)
(* offset, assembles a batch of CHUNK_SIZE utterances and returns the      *)
(* batch with the new offset.  The micro-batch engine that calls the       *)
(* reader is modelled by the offset its stream has reached, the records    *)
(* delivered to it, and the latest calls it made.                          *)
(*                                                                         *)
(* Python indices are 0-based and kept so; a TLA+ sequence is indexed      *)
(* from 1, so conversations[i] of the source is conversations[i + 1] here. *)
(* Times are integers.  A datetime counts microseconds, so the clock, the  *)
(* start time of a reader and the timestamps are in microseconds; a delay  *)
(* is a float of seconds and is counted in halves of a microsecond.        *)
(***************************************************************************)
EXTENDS Integers, Sequences, FiniteSets, TLC

\* ------------------------------------------------------------------ bounds
\* most conversations in a corpus
MaxConvs == 3
\* most utterances in one conversation
MaxUtt == 5
\* most reads of the engine's stream in one behaviour
MaxReads == 3
\* the last value of the wall clock: the times a reader can be constructed at
MaxTime == 1
\* the positive value of the max_utterances option that is tried
MaxUtterancesLimit == 5

\* ------------------------------------------------------- program constants
\* TranscriptStreamReader.CHUNK_SIZE: utterances per batch
CHUNK_SIZE == 10
\* a delay (float(options.get(..)), lines 113-114) is counted in halves of
\* a microsecond
DelayParts == 2
\* DEFAULT_UTTERANCE_DELAY (0.1 s), in halves of a microsecond
DEFAULT_UTTERANCE_DELAY == 200000
\* DEFAULT_CONVERSATION_DELAY (1.0 s), in halves of a microsecond
DEFAULT_CONVERSATION_DELAY == 2000000

VARIABLES
    conversations,             \* self.conversations: the corpus
    loop,                      \* self.loop
    max_utterances,            \* self.max_utterances
    utterance_delay,           \* self.utterance_delay
    conversation_delay,        \* self.conversation_delay
    parsed,                    \* conversations the dataset gave at load; -1 before
    start_time,                \* self.start_time
    current_conversation_idx,  \* self.current_conversation_idx
    current_utterance_idx,     \* self.current_utterance_idx
    total_utterances_sent,     \* self.total_utterances_sent
    pc,                        \* where the reader is: "idle", "loop", "conv", "ret"
    call,                      \* the call in progress: "read" or "readBetweenOffsets"
    start,                     \* read's argument
    end,                       \* readBetweenOffsets' second argument
    batch,                     \* read's local batch
    utterances_collected,      \* read's local utterances_collected
    slept,                     \* the time.sleep of read's latest step
    now,                       \* the wall clock
    position,                  \* the engine: the offset its stream has reached
    delivered,                 \* the engine: the utterances of its stream, in order
    reads,                     \* the engine: number of reads of its stream
    last,                      \* the engine: the latest read of its stream
    result,                    \* the engine: the latest completed call
    other,                     \* a second reader instance and its engine
    server,                    \* the API process: "off" or "up"
    client_conversations,      \* transcript_client.conversations
    current_idx,               \* transcript_client.current_idx
    received,                  \* what each caller of the API has received
    response,                  \* the latest list get_utterances returned
    pulls,                     \* number of get_utterances calls
    fetch,                     \* the remote fetch adapter's call in progress
    asked,                     \* the limit of the latest get_utterances call
    served,                    \* the utterances get_utterances returned, in call order
    stream,                    \* a consumer loop over get_utterances: a stream endpoint
    flights,                   \* a request of /opensky/flights
    trial                      \* reads of other batch sizes, side by side

vars == <<conversations, loop, max_utterances, utterance_delay,
          conversation_delay, parsed, start_time,
          current_conversation_idx, current_utterance_idx,
          total_utterances_sent, pc, call, start, end, batch,
          utterances_collected, slept, now, position, delivered, reads, last,
          result, other, server, client_conversations, current_idx, received,
          response, pulls, fetch, asked, served, stream, flights, trial>>

config == <<conversations, loop, max_utterances, utterance_delay,
            conversation_delay, parsed>>
\* the API process and the remote fetch adapter
api == <<server, client_conversations, current_idx, received, response, pulls,
         fetch, asked, served, stream, flights>>
\* what no step of a reader touches
outside == <<other, api, trial>>
cursor == <<current_conversation_idx, current_utterance_idx,
            total_utterances_sent>>
frame == <<call, start, end, batch, utterances_collected>>
engine == <<position, delivered, reads, last, result>>

\* ------------------------------------------------------------- the corpus
Min(a, b) == IF a < b THEN a ELSE b

\* One Utterance (dataclass, lines 71-79) as _parse_transcript_text builds
\* it for the line at index j of conversation c: texts repeat across the
\* corpus, speakers alternate, times grow with the line.
Utterance(c, j) ==
    [text |-> (c + j) % 3,
     speaker |-> IF j % 2 = 0 THEN "agent" ELSE "customer",
     start_time |-> 2 * j,
     end_time |-> 2 * j + 1,
     confidence |-> 95 + ((c + j) % 5)]

\* One Conversation (dataclass, lines 82-90) of n utterances, as
\* _parse_huggingface_dataset builds it for the record at index idx.
Conversation(idx, n) ==
    [conversation_id |-> idx,
     utterances |-> [j \in 1..n |-> Utterance(idx, j - 1)],
     domain |-> "unknown",
     topic |-> "unknown",
     accent |-> "unknown",
     duration |-> n * 5]

\* The corpora _load_dataset can leave in self.conversations: at least one
\* conversation (an empty parse falls back to the sample data), each with
\* any number of utterances, zero included (a record with no transcript).
\* The lengths tried: none, one, and the most.
ConversationLengths == {0, 1, MaxUtt}

UtteranceCounts ==
    UNION {[1..n -> ConversationLengths] : n \in 1..MaxConvs}

Corpora == {[i \in 1..Len(c) |-> Conversation(i - 1, c[i])] : c \in UtteranceCounts}

\* ------------------------------------------------------------ the offsets
Offset(c, u, t) == [conversation_idx |-> c, utterance_idx |-> u, total_sent |-> t]

initialOffset == Offset(0, 0, 0)

\* as NewOffset, but total_sent leaves out the utterances of this batch
NewOffsetMissingCollected ==
    Offset(current_conversation_idx, current_utterance_idx, total_utterances_sent)

\* new_offset of read (lines 411-415)
NewOffset ==
    Offset(current_conversation_idx, current_utterance_idx,
           total_utterances_sent + utterances_collected)

\* timedelta(seconds=elapsed) (line 383) for an elapsed time of x halves of
\* a microsecond: a timedelta counts whole microseconds, and the fraction is
\* rounded to the nearest microsecond, a half to the even one
Microseconds(x) ==
    LET q == x \div DelayParts
        r == x % DelayParts
    IN  IF 2 * r < DelayParts THEN q
        ELSE IF 2 * r > DelayParts THEN q + 1
        ELSE IF q % 2 = 0 THEN q ELSE q + 1

\* as Timestamp, but of the first record of the batch
TimestampOfBatchStart ==
    start_time + Microseconds(total_utterances_sent * utterance_delay)

\* the timestamp (lines 381-383) and the record tuple (lines 385-398) of read
Timestamp ==
    start_time
      + Microseconds((total_utterances_sent + utterances_collected) * utterance_delay)

Record(conversation, utterance) ==
    [timestamp |-> Timestamp,
     conversation_id |-> conversation.conversation_id,
     utterance_id |-> current_utterance_idx,
     speaker |-> utterance.speaker,
     text |-> utterance.text,
     confidence |-> utterance.confidence,
     start_time |-> utterance.start_time,
     end_time |-> utterance.end_time,
     domain |-> conversation.domain,
     topic |-> conversation.topic,
     accent |-> conversation.accent]

\* what identifies the utterance of a record
Key(r) == <<r.conversation_id, r.utterance_id, r.speaker, r.text>>
Keys(b) == [i \in 1..Len(b) |-> Key(b[i])]

\* ------------------------------------------------------------------- Init
\* a completed call, as the engine keeps it
Call(op, s, e, b, o, t) ==
    [op |-> op, start |-> s, end |-> e, batch |-> b, new_offset |-> o,
     start_time |-> t]

NoCall == Call("none", initialOffset, initialOffset, <<>>, initialOffset, 0)

\* A reader instance and its engine as they are after __init__ (lines
\* 118-123), kept aside while another instance runs.
FreshReader ==
    [start_time |-> 0,
     current_conversation_idx |-> 0,
     current_utterance_idx |-> 0,
     total_utterances_sent |-> 0,
     pc |-> "idle",
     call |-> "read",
     start |-> initialOffset,
     end |-> initialOffset,
     batch |-> <<>>,
     utterances_collected |-> 0,
     slept |-> "none",
     position |-> initialOffset,
     delivered |-> <<>>,
     reads |-> 0,
     last |-> NoCall,
     result |-> NoCall]

\* the callers of the API: two HTTP clients
Callers == {"a", "b"}

\* the remote fetch adapter has made no call
NoFetch == [pc |-> "idle", limit |-> 0, attempts |-> 0, batch |-> <<>>, calls |-> 0]

\* no consumer loop is running
NoStream ==
    [pc |-> "off", kind |-> "none", chunk_size |-> 0, total |-> 0, sent |-> 0,
     sizes |-> <<>>, reported |-> 0, complete |-> 0, completed_total |-> 0]

\* no request of /opensky/flights was made
NoRequest ==
    [pc |-> "idle", requests |-> 0, limit |-> 0, attempts |-> 0,
     failure |-> "none", answered |-> 0, status |-> 0, detail |-> "",
     returned |-> 0]

\* no batch sizes were tried
NoTrial ==
    [k1 |-> 0, k2 |-> 0, start |-> initialOffset,
     first |-> <<>>, second |-> <<>>, single |-> <<>>,
     split_offset |-> initialOffset, single_offset |-> initialOffset]

\* the options of __init__, lines 112-116
Options ==
    /\ loop \in BOOLEAN
    /\ max_utterances \in {-1, MaxUtterancesLimit}
    /\ utterance_delay = DEFAULT_UTTERANCE_DELAY
    /\ conversation_delay = DEFAULT_CONVERSATION_DELAY

\* the state tracking fields of __init__, lines 118-123, a new engine, and
\* a second instance constructed alike
Fields ==
    /\ now = 0
    /\ start_time = now
    /\ current_conversation_idx = 0
    /\ current_utterance_idx = 0
    /\ total_utterances_sent = 0
    /\ call = "read"
    /\ start = initialOffset
    /\ end = initialOffset
    /\ batch = <<>>
    /\ utterances_collected = 0
    /\ slept = "none"
    /\ position = initialOffset
    /\ delivered = <<>>
    /\ reads = 0
    /\ last = NoCall
    /\ result = NoCall
    /\ other = FreshReader

\* this process is not the API server
NoServer ==
    /\ server = "off"
    /\ client_conversations = <<>>
    /\ current_idx = 0
    /\ received = [c \in Callers |-> <<>>]
    /\ response = <<>>
    /\ pulls = 0
    /\ fetch = NoFetch
    /\ asked = 0
    /\ served = <<>>
    /\ stream = NoStream
    /\ flights = NoRequest
    /\ trial = NoTrial

\* the reader is constructed and its dataset is parsed
Init ==
    /\ Options
    /\ conversations \in Corpora
    /\ parsed = Len(conversations)
    /\ pc = "idle"
    /\ Fields
    /\ NoServer

\* ---------------------------------------------------------------- actions
\* The calls the engine can make: read(position), the next read of its
\* stream; read(last.start), the latest read again; and
\* readBetweenOffsets(last.start, last.new_offset), the replay of the latest
\* range.
Calls ==
    {<<"read", position, position>>}
    \cup (IF last.op = "none" THEN {}
          ELSE {<<"read", last.start, last.start>>,
                <<"readBetweenOffsets", last.start, last.new_offset>>})

\* the engine calls op(s, e) on the idle reader
Enter(op, s, e) ==
    /\ pc = "idle"
    /\ IF op = "read" /\ s = position
         THEN reads < MaxReads /\ reads' = reads + 1
         ELSE reads' = reads
    /\ call' = op
    /\ start' = s
    /\ end' = e

\* the call returns batch b and offset o to the engine; a read of the
\* engine's stream extends the stream
Deliver(b, o) ==
    LET done == Call(call', start', end', b, o, start_time)
    IN  /\ result' = done
        /\ IF call' = "read" /\ start' = position
             THEN /\ position' = o
                  /\ delivered' = delivered \o Keys(b)
                  /\ last' = done
             ELSE UNCHANGED <<position, delivered, last>>

\* read, lines 343-352: max_utterances is reached (lines 339-341: or there
\* are no conversations): an empty batch and the start offset
ReadNothing(op, s, e) ==
    /\ Enter(op, s, e)
    /\ IF conversations = <<>>
         THEN UNCHANGED cursor
         ELSE /\ current_conversation_idx' = s.conversation_idx
              /\ current_utterance_idx' = s.utterance_idx
              /\ total_utterances_sent' = s.total_sent
              /\ max_utterances > 0 /\ s.total_sent >= max_utterances
              /\ ~loop
    /\ Deliver(<<>>, s)
    /\ slept' = "none"
    /\ UNCHANGED <<config, outside, start_time, pc, batch,
                   utterances_collected, now>>

\* as ReadBegin, but utterance_idx is not restored from the offset
ReadBeginKeepsUtteranceIdx(op, s, e) ==
    /\ Enter(op, s, e)
    /\ conversations # <<>>
    /\ current_conversation_idx' = s.conversation_idx
    /\ current_utterance_idx' = current_utterance_idx
    /\ total_utterances_sent' = s.total_sent
    /\ ~(max_utterances > 0 /\ s.total_sent >= max_utterances /\ ~loop)
    /\ batch' = <<>>
    /\ utterances_collected' = 0
    /\ pc' = "loop"
    /\ result' = NoCall
    /\ slept' = "none"
    /\ UNCHANGED <<config, outside, start_time, now, position, delivered, last>>

\* read, lines 343-355: the cursor is restored and the batch is started
ReadBegin(op, s, e) ==
    /\ Enter(op, s, e)
    /\ conversations # <<>>
    /\ current_conversation_idx' = s.conversation_idx
    /\ current_utterance_idx' = s.utterance_idx
    /\ total_utterances_sent' = s.total_sent
    /\ ~(max_utterances > 0 /\ s.total_sent >= max_utterances /\ ~loop)
    /\ batch' = <<>>
    /\ utterances_collected' = 0
    /\ pc' = "loop"
    /\ result' = NoCall
    /\ slept' = "none"
    /\ UNCHANGED <<config, outside, start_time, now, position, delivered, last>>

\* the while test of line 357 holds
InLoop == pc = "loop" /\ utterances_collected < CHUNK_SIZE

\* as LoopBack, but the cursor goes back to the second conversation
LoopBackSkipsFirst ==
    /\ InLoop
    /\ current_conversation_idx >= Len(conversations)
    /\ loop
    /\ current_conversation_idx' = 1
    /\ current_utterance_idx' = 0
    /\ pc' = "conv"
    /\ slept' = "conversation"
    /\ UNCHANGED <<config, outside, start_time, total_utterances_sent, frame, now,
                   engine>>


\* as LoopBack, but the emission counter is reset with the cursor
LoopBackResetsTotal ==
    /\ InLoop
    /\ current_conversation_idx >= Len(conversations)
    /\ loop
    /\ current_conversation_idx' = 0
    /\ current_utterance_idx' = 0
    /\ total_utterances_sent' = 0
    /\ pc' = "conv"
    /\ slept' = "conversation"
    /\ UNCHANGED <<config, outside, start_time, frame, now, engine>>

\* read, lines 359-364: all conversations are exhausted, loop back
LoopBack ==
    /\ InLoop
    /\ current_conversation_idx >= Len(conversations)
    /\ loop
    /\ current_conversation_idx' = 0
    /\ current_utterance_idx' = 0
    /\ pc' = "conv"
    /\ slept' = "conversation"
    /\ UNCHANGED <<config, outside, start_time, total_utterances_sent, frame, now,
                   engine>>

\* as EndOfConversations, but the break leaves the cursor on the last
\* conversation
EndOfConversationsStepsBack ==
    /\ InLoop
    /\ current_conversation_idx >= Len(conversations)
    /\ ~loop
    /\ current_conversation_idx' = Len(conversations) - 1
    /\ pc' = "ret"
    /\ slept' = "none"
    /\ UNCHANGED <<config, outside, start_time, current_utterance_idx,
                   total_utterances_sent, frame, now, engine>>

\* read, lines 359, 365-367: all conversations are exhausted, break
EndOfConversations ==
    /\ InLoop
    /\ current_conversation_idx >= Len(conversations)
    /\ ~loop
    /\ pc' = "ret"
    /\ slept' = "none"
    /\ UNCHANGED <<config, outside, start_time, cursor, frame, now, engine>>

\* line 369 is reached: from the while test, or after looping back
AtConversation ==
    \/ InLoop /\ current_conversation_idx < Len(conversations)
    \/ pc = "conv"

\* as NextConversation, but without the sleep of line 375
NextConversationNoPause ==
    /\ AtConversation
    /\ LET conversation == conversations[current_conversation_idx + 1]
       IN  current_utterance_idx >= Len(conversation.utterances)
    /\ current_conversation_idx' = current_conversation_idx + 1
    /\ current_utterance_idx' = 0
    /\ pc' = "loop"
    /\ slept' = "none"
    /\ UNCHANGED <<config, outside, start_time, total_utterances_sent, frame, now,
                   engine>>


\* as NextConversation, but utterance_idx is not reset
NextConversationKeepsUtteranceIdx ==
    /\ AtConversation
    /\ LET conversation == conversations[current_conversation_idx + 1]
       IN  current_utterance_idx >= Len(conversation.utterances)
    /\ current_conversation_idx' = current_conversation_idx + 1
    /\ pc' = "loop"
    /\ slept' = "conversation"
    /\ UNCHANGED <<config, outside, start_time, current_utterance_idx,
                   total_utterances_sent, frame, now, engine>>

\* read, lines 369-376: the current conversation is exhausted
NextConversation ==
    /\ AtConversation
    /\ LET conversation == conversations[current_conversation_idx + 1]
       IN  current_utterance_idx >= Len(conversation.utterances)
    /\ current_conversation_idx' = current_conversation_idx + 1
    /\ current_utterance_idx' = 0
    /\ pc' = "loop"
    /\ slept' = "conversation"
    /\ UNCHANGED <<config, outside, start_time, total_utterances_sent, frame, now,
                   engine>>

\* as EmitUtterance, but after the last utterance of a conversation the
\* cursor moves to the next conversation at once
EmitUtteranceThenAdvance ==
    /\ AtConversation
    /\ LET conversation == conversations[current_conversation_idx + 1]
       IN  /\ current_utterance_idx < Len(conversation.utterances)
           /\ LET utterance == conversation.utterances[current_utterance_idx + 1]
              IN  batch' = Append(batch, Record(conversation, utterance))
           /\ IF current_utterance_idx + 1 >= Len(conversation.utterances)
                THEN /\ current_utterance_idx' = 0
                     /\ current_conversation_idx' = current_conversation_idx + 1
                ELSE /\ current_utterance_idx' = current_utterance_idx + 1
                     /\ UNCHANGED current_conversation_idx
    /\ utterances_collected' = utterances_collected + 1
    /\ pc' = "loop"
    /\ slept' = IF utterance_delay > 0 THEN "utterance" ELSE "none"
    /\ UNCHANGED <<config, outside, start_time, total_utterances_sent, call,
                   start, end, now, engine>>


\* as EmitUtterance, but the while loop runs once more than CHUNK_SIZE
EmitUtteranceOnceMore ==
    /\ \/ pc = "loop" /\ utterances_collected <= CHUNK_SIZE
          /\ current_conversation_idx < Len(conversations)
       \/ pc = "conv"
    /\ LET conversation == conversations[current_conversation_idx + 1]
       IN  /\ current_utterance_idx < Len(conversation.utterances)
           /\ LET utterance == conversation.utterances[current_utterance_idx + 1]
              IN  batch' = Append(batch, Record(conversation, utterance))
    /\ current_utterance_idx' = current_utterance_idx + 1
    /\ utterances_collected' = utterances_collected + 1
    /\ pc' = "loop"
    /\ slept' = IF utterance_delay > 0 THEN "utterance" ELSE "none"
    /\ UNCHANGED <<config, outside, start_time, current_conversation_idx,
                   total_utterances_sent, call, start, end, now, engine>>

\* read, lines 369-408: the next utterance is emitted
EmitUtterance ==
    /\ AtConversation
    /\ LET conversation == conversations[current_conversation_idx + 1]
       IN  /\ current_utterance_idx < Len(conversation.utterances)
           /\ LET utterance == conversation.utterances[current_utterance_idx + 1]
              IN  batch' = Append(batch, Record(conversation, utterance))
    /\ current_utterance_idx' = current_utterance_idx + 1
    /\ utterances_collected' = utterances_collected + 1
    /\ pc' = "loop"
    /\ slept' = IF utterance_delay > 0 THEN "utterance" ELSE "none"
    /\ UNCHANGED <<config, outside, start_time, current_conversation_idx,
                   total_utterances_sent, call, start, end, now, engine>>

\* read, lines 410-422 (and readBetweenOffsets, lines 426-427): the batch
\* and the new offset are returned
ReadReturn ==
    /\ \/ pc = "loop" /\ ~(utterances_collected < CHUNK_SIZE)
       \/ pc = "ret"
    /\ total_utterances_sent' = total_utterances_sent + utterances_collected
    /\ pc' = "idle"
    /\ UNCHANGED <<call, start, end, reads>>
    /\ Deliver(batch, NewOffset)
    /\ slept' = "none"
    /\ UNCHANGED <<config, outside, start_time, current_conversation_idx,
                   current_utterance_idx, batch, utterances_collected, now>>

\* the process restarts: a new reader (__init__, lines 107-126) over the
\* same corpus and options, constructed at a later time
Restart ==
    /\ pc = "idle"
    /\ now < MaxTime
    /\ now' = now + 1
    /\ start_time' = now'
    /\ current_conversation_idx' = 0
    /\ current_utterance_idx' = 0
    /\ total_utterances_sent' = 0
    /\ slept' = "none"
    /\ UNCHANGED <<config, outside, pc, frame, engine>>

Next ==
    \/ \E c \in Calls : ReadNothing(c[1], c[2], c[3])
    \/ \E c \in Calls : ReadBegin(c[1], c[2], c[3])
    \/ LoopBack
    \/ EndOfConversations
    \/ NextConversation
    \/ EmitUtterance
    \/ ReadReturn
    \/ Restart

Spec == Init /\ [][Next]_vars

\* The reader's thread keeps running: a read that has begun takes its next
\* step (the sleeps of lines 364, 375 and 408 end).
ReadStep ==
    \/ LoopBack
    \/ EndOfConversations
    \/ NextConversation
    \/ EmitUtterance
    \/ ReadReturn

FairSpec == Init /\ [][Next]_vars /\ WF_vars(ReadStep)

\* The engine may also hand read the offset of its latest read with another
\* total_sent (an offset persisted by a run with other options).
OtherTotals == {0, MaxUtterancesLimit}

CallsOtherTotal ==
    IF last.op = "none" THEN {}
    ELSE {<<"read", o, o>> :
            o \in {[last.start EXCEPT !.total_sent = t] : t \in OtherTotals}}
         \ Calls

NextAny ==
    \/ Next
    \/ \E c \in CallsOtherTotal : ReadNothing(c[1], c[2], c[3])
    \/ \E c \in CallsOtherTotal : ReadBegin(c[1], c[2], c[3])

SpecAny == Init /\ [][NextAny]_vars

\* ------------------------------------------------------ loading the corpus
\* _generate_sample_data (lines 234-324): range(50) conversations, each a
\* copy of one of three templates of 12, 14 and 11 utterances; its ids
\* ("conv_00000", ...) differ from the ids of parsed records.
SAMPLE_CONVERSATIONS == 50

TemplateLengths == <<12, 14, 11>>

SampleConversation(i, t) ==
    [conversation_id |-> 100000 + i,
     utterances |-> [j \in 1..TemplateLengths[t] |-> Utterance(t, j - 1)],
     domain |-> "billing",
     topic |-> "inbound",
     accent |-> "indian",
     duration |-> TemplateLengths[t] * 5]

\* random.choice picks a template for each conversation; the picks tried
\* are the three rotations of the templates
Seeds == 0..2

SampleData(seed) ==
    [i \in 1..SAMPLE_CONVERSATIONS |->
        SampleConversation(i - 1, ((i + seed) % Len(TemplateLengths)) + 1)]

\* the reader before _load_dataset (lines 107-123)
InitLoad ==
    /\ Options
    /\ conversations = <<>>
    /\ parsed = -1
    /\ pc = "init"
    /\ Fields
    /\ NoServer

\* _load_dataset, lines 135-140, and _parse_huggingface_dataset, lines
\* 152-186: the dataset gives the conversations c, at least one
LoadDataset(c) ==
    /\ pc = "init"
    /\ c # <<>>
    /\ conversations' = conversations \o c
    /\ parsed' = Len(c)
    /\ pc' = "idle"
    /\ UNCHANGED <<loop, max_utterances, utterance_delay, conversation_delay,
                   outside, start_time, cursor, frame, slept, now, engine>>

\* what the dataset has given when _generate_sample_data is called:
\* nothing (the library is missing or load_dataset raises, lines 141-146;
\* or the parse ends with no conversation, lines 188-190), or some
\* conversations (the iteration raises after them, line 144)
ParsedBeforeFallback == {<<>>} \cup {c \in Corpora : Len(c) = 1}

\* as LoadSampleData, but no sample data is generated
LoadSampleDataNothing(c, seed) ==
    /\ pc = "init"
    /\ conversations' = conversations \o c
    /\ parsed' = Len(c)
    /\ pc' = "idle"
    /\ UNCHANGED <<loop, max_utterances, utterance_delay, conversation_delay,
                   outside, start_time, cursor, frame, slept, now, engine>>

\* _load_dataset, lines 141-150, and _parse_huggingface_dataset, lines
\* 188-190: the reader falls back to the sample data
LoadSampleData(c, seed) ==
    /\ pc = "init"
    /\ conversations' = (conversations \o c) \o SampleData(seed)
    /\ parsed' = Len(c)
    /\ pc' = "idle"
    /\ UNCHANGED <<loop, max_utterances, utterance_delay, conversation_delay,
                   outside, start_time, cursor, frame, slept, now, engine>>

NextLoad ==
    \/ \E c \in Corpora : LoadDataset(c)
    \/ \E c \in ParsedBeforeFallback, seed \in Seeds : LoadSampleData(c, seed)
    \/ Next

SpecLoad == InitLoad /\ [][NextLoad]_vars


\* --------------------------------------------------- two reader instances
\* Each TranscriptStreamReader keeps its cursor and its options in instance
\* fields (lines 112-123), and each has its own engine.  One instance runs
\* at a time here; the other is kept in other, with its engine, and a
\* Switch lets it run.  Both read the same corpus.

\* the running instance and its engine
Reader ==
    [start_time |-> start_time,
     current_conversation_idx |-> current_conversation_idx,
     current_utterance_idx |-> current_utterance_idx,
     total_utterances_sent |-> total_utterances_sent,
     pc |-> pc,
     call |-> call,
     start |-> start,
     end |-> end,
     batch |-> batch,
     utterances_collected |-> utterances_collected,
     slept |-> slept,
     position |-> position,
     delivered |-> delivered,
     reads |-> reads,
     last |-> last,
     result |-> result]

\* as Switch, but the cursor fields are shared by the instances
SwitchSharedCursor ==
    /\ other' = Reader
    /\ start_time' = other.start_time
    /\ UNCHANGED cursor
    /\ pc' = other.pc
    /\ call' = other.call
    /\ start' = other.start
    /\ end' = other.end
    /\ batch' = other.batch
    /\ utterances_collected' = other.utterances_collected
    /\ slept' = other.slept
    /\ position' = other.position
    /\ delivered' = other.delivered
    /\ reads' = other.reads
    /\ last' = other.last
    /\ result' = other.result
    /\ UNCHANGED <<config, now, api, trial>>

\* the other instance runs on, at any step of read (at the sleeps of lines
\* 364, 375 and 408 among them) or between reads
Switch ==
    /\ other' = Reader
    /\ start_time' = other.start_time
    /\ current_conversation_idx' = other.current_conversation_idx
    /\ current_utterance_idx' = other.current_utterance_idx
    /\ total_utterances_sent' = other.total_utterances_sent
    /\ pc' = other.pc
    /\ call' = other.call
    /\ start' = other.start
    /\ end' = other.end
    /\ batch' = other.batch
    /\ utterances_collected' = other.utterances_collected
    /\ slept' = other.slept
    /\ position' = other.position
    /\ delivered' = other.delivered
    /\ reads' = other.reads
    /\ last' = other.last
    /\ result' = other.result
    /\ UNCHANGED <<config, now, api, trial>>

\* most reads the two streams make together
MaxPairReads == 2

PairBudget == reads + other.reads < MaxPairReads

NextTwo ==
    \/ PairBudget /\ ReadNothing("read", position, position)
    \/ PairBudget /\ ReadBegin("read", position, position)
    \/ LoopBack
    \/ EndOfConversations
    \/ NextConversation
    \/ EmitUtterance
    \/ ReadReturn
    \/ Switch

SpecTwo == Init /\ [][NextTwo]_vars

\* What read returns when nothing else runs: the loop of lines 357-408 from
\* the cursor (c, u) with the keys k collected, and the offset of lines
\* 410-415 for total_sent t at the start.
RECURSIVE AloneLoop(_, _, _, _)
RECURSIVE AloneAt(_, _, _, _)
AloneLoop(c, u, k, t) ==
    IF Len(k) >= CHUNK_SIZE
      THEN [keys |-> k, new_offset |-> Offset(c, u, t + Len(k))]
    ELSE IF c >= Len(conversations)
      THEN IF loop THEN AloneAt(0, 0, k, t)
           ELSE [keys |-> k, new_offset |-> Offset(c, u, t + Len(k))]
    ELSE AloneAt(c, u, k, t)

AloneAt(c, u, k, t) ==
    LET conversation == conversations[c + 1]
    IN  IF u >= Len(conversation.utterances)
          THEN AloneLoop(c + 1, 0, k, t)
          ELSE AloneLoop(c, u + 1,
                         Append(k, <<conversation.conversation_id, u,
                                     conversation.utterances[u + 1].speaker,
                                     conversation.utterances[u + 1].text>>),
                         t)

\* max_utterances stops a read from offset s (lines 349-352)
StoppedAt(s) == max_utterances > 0 /\ s.total_sent >= max_utterances /\ ~loop

ReadAlone(s) ==
    IF conversations = <<>> \/ StoppedAt(s)
      THEN [keys |-> <<>>, new_offset |-> s]
      ELSE AloneLoop(s.conversation_idx, s.utterance_idx, <<>>, s.total_sent)


\* ------------------------------------------------------------------------
\* read with another batch size: what read (lines 343-415) returns from
\* offset s when the class attribute CHUNK_SIZE (line 105) is size.

\* the largest batch size tried
MaxBatch == 5

RECURSIVE ChunkLoop(_, _, _, _, _)
RECURSIVE ChunkAt(_, _, _, _, _)
ChunkLoop(size, c, u, k, t) ==
    IF Len(k) >= size
      THEN [keys |-> k, new_offset |-> Offset(c, u, t + Len(k))]
    ELSE IF c >= Len(conversations)
      THEN IF loop THEN ChunkAt(size, 0, 0, k, t)
           ELSE [keys |-> k, new_offset |-> Offset(c, u, t + Len(k))]
    ELSE ChunkAt(size, c, u, k, t)

ChunkAt(size, c, u, k, t) ==
    LET conversation == conversations[c + 1]
    IN  IF u >= Len(conversation.utterances)
          THEN ChunkLoop(size, c + 1, 0, k, t)
          ELSE ChunkLoop(size, c, u + 1,
                         Append(k, <<conversation.conversation_id, u,
                                     conversation.utterances[u + 1].speaker,
                                     conversation.utterances[u + 1].text>>),
                         t)

ReadChunk(size, s) ==
    IF conversations = <<>> \/ StoppedAt(s)
      THEN [keys |-> <<>>, new_offset |-> s]
      ELSE ChunkLoop(size, s.conversation_idx, s.utterance_idx, <<>>, s.total_sent)

\* From the offset the stream has reached, the engine reads k1 records and
\* then k2 records from the returned offset, and, from the same offset,
\* k1 + k2 records in one read.
TryBatches(k1, k2) ==
    /\ pc = "idle"
    /\ trial = NoTrial
    /\ loop => \E i \in 1..Len(conversations) : conversations[i].utterances # <<>>
    /\ LET first == ReadChunk(k1, position)
           second == ReadChunk(k2, first.new_offset)
           single == ReadChunk(k1 + k2, position)
       IN  trial' = [k1 |-> k1, k2 |-> k2, start |-> position,
                     first |-> first.keys, second |-> second.keys,
                     single |-> single.keys,
                     split_offset |-> second.new_offset,
                     single_offset |-> single.new_offset]
    /\ UNCHANGED <<config, other, api, start_time, cursor, pc, frame, slept,
                   now, engine>>

\* the reads of the stream, and the trial at an offset they have reached
NextBatch ==
    \/ trial = NoTrial /\ ReadNothing("read", position, position)
    \/ trial = NoTrial /\ ReadBegin("read", position, position)
    \/ LoopBack
    \/ EndOfConversations
    \/ NextConversation
    \/ EmitUtterance
    \/ ReadReturn
    \/ \E k1 \in 1..MaxBatch, k2 \in 1..MaxBatch : TryBatches(k1, k2)

SpecBatch == Init /\ [][NextBatch]_vars


\* ------------------------------------------------------------------------
\* resuming against another corpus: the process restarts, _load_dataset
\* leaves other conversations in the list (the sample data of lines 289-322
\* are drawn at random on each start), and the engine goes on from the
\* offset it has persisted.

\* the restart after the first batch: a new reader (__init__, lines
\* 107-126) over corpus c; the engine keeps its offset, and the record of
\* the calls starts anew
RestartOtherCorpus(c) ==
    /\ pc = "idle"
    /\ now = 0
    /\ reads = 1
    /\ now' = now + 1
    /\ start_time' = now'
    /\ conversations' = c
    /\ parsed' = Len(c)
    /\ current_conversation_idx' = 0
    /\ current_utterance_idx' = 0
    /\ total_utterances_sent' = 0
    /\ slept' = "none"
    /\ delivered' = <<>>
    /\ last' = NoCall
    /\ result' = NoCall
    /\ call' = "read"
    /\ start' = initialOffset
    /\ end' = initialOffset
    /\ batch' = <<>>
    /\ utterances_collected' = 0
    /\ UNCHANGED <<loop, max_utterances, utterance_delay, conversation_delay,
                   outside, pc, position, reads>>

\* the reads of the stream, before and after the restart
NextResume ==
    \/ ReadNothing("read", position, position)
    \/ ReadBegin("read", position, position)
    \/ LoopBack
    \/ EndOfConversations
    \/ NextConversation
    \/ EmitUtterance
    \/ ReadReturn
    \/ \E c \in Corpora : RestartOtherCorpus(c)

SpecResume == Init /\ [][NextResume]_vars


\* ----------------------------------------------------- the API's client
\* TranscriptClient of api/main.py: the utterances of the dataset in one
\* list, self.conversations, and a position in it, self.current_idx; the
\* module-level transcript_client (line 389) serves every request.

\* most utterances in the API's dataset
MaxRecords == 4
\* the largest limit a caller asks for
MaxLimit == 3
\* most get_utterances calls in one behaviour
MaxPulls == 3

\* One stored utterance (a dict of conversations.jsonl, or of
\* _generate_sample_data, lines 337-348): it has no "timestamp" key, which
\* is timestamp -1 here.  Conversations have two utterances.
StoredUtterance(i) ==
    [conversation_id |-> i \div 2,
     utterance_id |-> i % 2,
     speaker |-> IF i % 2 = 0 THEN "agent" ELSE "customer",
     text |-> i % 3,
     timestamp |-> -1]

\* the datasets _load_dataset (lines 270-292) can leave in the list
Datasets == {[i \in 1..n |-> StoredUtterance(i - 1)] : n \in 1..MaxRecords}

\* what identifies the utterance of a dict
UKey(u) == <<u.conversation_id, u.utterance_id>>
UKeys(b) == [i \in 1..Len(b) |-> UKey(b[i])]

\* the API server after the import of main.py (lines 264-268, 389); it has
\* no stream reader
InitApi ==
    /\ loop = TRUE
    /\ max_utterances = -1
    /\ utterance_delay = DEFAULT_UTTERANCE_DELAY
    /\ conversation_delay = DEFAULT_CONVERSATION_DELAY
    /\ conversations = <<>>
    /\ parsed = -1
    /\ pc = "off"
    /\ Fields
    /\ server = "up"
    /\ client_conversations \in Datasets
    /\ current_idx = 0
    /\ received = [c \in Callers |-> <<>>]
    /\ response = <<>>
    /\ pulls = 0
    /\ fetch = NoFetch
    /\ asked = 0
    /\ served = <<>>
    /\ stream = NoStream
    /\ flights = NoRequest
    /\ trial = NoTrial

\* the slice get_utterances takes (lines 360-361)
EndIdx(limit) == Min(current_idx + limit, Len(client_conversations))

\* the list get_utterances returns (lines 363-370): copies of the slice's
\* dicts with the timestamp set
Stamped(limit) ==
    LET utterances == SubSeq(client_conversations, current_idx + 1, EndIdx(limit))
    IN  [i \in 1..Len(utterances) |-> [utterances[i] EXCEPT !.timestamp = now]]

\* as GetUtterances, but the timestamp is set in the stored dicts
GetUtterancesNoCopy(c, limit) ==
    /\ server = "up"
    /\ pulls < MaxPulls
    /\ pulls' = pulls + 1
    /\ response' = Stamped(limit)
    /\ received' = [received EXCEPT ![c] = @ \o UKeys(response')]
    /\ asked' = limit
    /\ served' = served \o UKeys(response')
    /\ client_conversations' =
          [i \in 1..Len(client_conversations) |->
              IF i > current_idx /\ i <= EndIdx(limit)
                THEN [client_conversations[i] EXCEPT !.timestamp = now]
                ELSE client_conversations[i]]
    /\ current_idx' = IF EndIdx(limit) >= Len(client_conversations)
                        THEN 0 ELSE EndIdx(limit)
    /\ UNCHANGED <<config, start_time, cursor, pc, frame, slept, now, engine,
                   other, server, fetch, stream, flights, trial>>

\* as GetUtterances, but the position is not reset at the end of the list
GetUtterancesNoReset(c, limit) ==
    /\ server = "up"
    /\ pulls < MaxPulls
    /\ pulls' = pulls + 1
    /\ response' = Stamped(limit)
    /\ current_idx' = EndIdx(limit)
    /\ received' = [received EXCEPT ![c] = @ \o UKeys(response')]
    /\ asked' = limit
    /\ served' = served \o UKeys(response')
    /\ UNCHANGED <<config, start_time, cursor, pc, frame, slept, now, engine,
                   other, server, client_conversations, fetch, stream, flights,
                   trial>>

\* as GetUtterances, but the position advances by limit, not by the slice
GetUtterancesAdvancesByLimit(c, limit) ==
    /\ server = "up"
    /\ pulls < MaxPulls
    /\ pulls' = pulls + 1
    /\ response' = Stamped(limit)
    /\ current_idx' = (current_idx + limit) % Len(client_conversations)
    /\ received' = [received EXCEPT ![c] = @ \o UKeys(response')]
    /\ asked' = limit
    /\ served' = served \o UKeys(response')
    /\ UNCHANGED <<config, start_time, cursor, pc, frame, slept, now, engine,
                   other, server, client_conversations, fetch, stream, flights,
                   trial>>


\* get_utterances(limit) (lines 354-377), called for caller c by
\* /transcript/utterances (lines 532-543) or by a stream
GetUtterances(c, limit) ==
    /\ server = "up"
    /\ pulls < MaxPulls
    /\ pulls' = pulls + 1
    /\ IF client_conversations = <<>>
         THEN /\ response' = <<>>
              /\ UNCHANGED current_idx
         ELSE /\ response' = Stamped(limit)
              /\ current_idx' = IF EndIdx(limit) >= Len(client_conversations)
                                  THEN 0 ELSE EndIdx(limit)
    /\ received' = [received EXCEPT ![c] = @ \o UKeys(response')]
    /\ asked' = limit
    /\ served' = served \o UKeys(response')
    /\ UNCHANGED <<config, start_time, cursor, pc, frame, slept, now, engine,
                   other, server, client_conversations, fetch, stream, flights,
                   trial>>

NextApi == \E c \in Callers, limit \in 1..MaxLimit : GetUtterances(c, limit)

SpecApi == InitApi /\ [][NextApi]_vars

\* a behaviour of either process: the stream reader, or the API server
InitBoth == Init \/ InitApi

NextBoth ==
    \/ Next
    \/ NextApi

SpecBoth == InitBoth /\ [][NextBoth]_vars


\* ------------------------------------------------ the remote fetch adapter
\* fetch(limit) of the reader variant that pulls batches over HTTP, as the
\* specification describes it (section 4.4): a GET of
\* /utterances?limit=N, repeated after a transient failure (network error,
\* 5xx, 429) up to FetchRetries times with a fixed backoff sleep between
\* the attempts, and an empty batch when every attempt has failed.  The
\* adapter has no cursor; what the endpoint answers is an input here.

\* the fixed number of retries after the first attempt
FetchRetries == 3
\* most fetch calls in one behaviour
MaxFetches == 3

\* an answer of the endpoint with k records
Fetched(k) == [i \in 1..k |-> [StoredUtterance(i - 1) EXCEPT !.timestamp = now]]

\* the process of the adapter: no stream reader over a local corpus and no
\* API server in it
InitFetch ==
    /\ loop = TRUE
    /\ max_utterances = -1
    /\ utterance_delay = DEFAULT_UTTERANCE_DELAY
    /\ conversation_delay = DEFAULT_CONVERSATION_DELAY
    /\ conversations = <<>>
    /\ parsed = -1
    /\ pc = "off"
    /\ Fields
    /\ NoServer

\* what no step of the adapter touches
nofetch == <<config, start_time, cursor, pc, frame, slept, now, engine, other,
             server, client_conversations, current_idx, received, response,
             pulls, asked, served, stream, flights, trial>>

\* the caller's scheduled pull calls fetch(limit)
FetchBegin(limit) ==
    /\ pc = "off" /\ server = "off"
    /\ fetch.pc \in {"idle", "done"}
    /\ fetch.calls < MaxFetches
    /\ fetch' = [pc |-> "trying", limit |-> limit, attempts |-> 0,
                 batch |-> <<>>, calls |-> fetch.calls + 1]
    /\ UNCHANGED nofetch

\* an attempt is answered: at most limit records, returned to the caller
FetchAnswered(k) ==
    /\ fetch.pc = "trying"
    /\ k <= fetch.limit
    /\ fetch' = [fetch EXCEPT !.pc = "done", !.batch = Fetched(k)]
    /\ UNCHANGED nofetch

\* an attempt fails with TransientFetchError and retries are left: backoff
\* sleep, then the next attempt
FetchRetry ==
    /\ fetch.pc = "trying"
    /\ fetch.attempts < FetchRetries
    /\ fetch' = [fetch EXCEPT !.attempts = @ + 1]
    /\ UNCHANGED nofetch

\* as FetchGiveUp, but the last TransientFetchError is raised to the caller
FetchGiveUpRaises ==
    /\ fetch.pc = "trying"
    /\ fetch.attempts = FetchRetries
    /\ fetch' = [fetch EXCEPT !.pc = "raised", !.attempts = @ + 1]
    /\ UNCHANGED nofetch

\* the attempt after the last retry fails: an empty batch is returned
FetchGiveUp ==
    /\ fetch.pc = "trying"
    /\ fetch.attempts = FetchRetries
    /\ fetch' = [fetch EXCEPT !.pc = "done", !.attempts = @ + 1, !.batch = <<>>]
    /\ UNCHANGED nofetch

NextFetch ==
    \/ \E limit \in 1..MaxLimit : FetchBegin(limit)
    \/ \E k \in 0..MaxLimit : FetchAnswered(k)
    \/ FetchRetry
    \/ FetchGiveUp

SpecFetch == InitFetch /\ [][NextFetch]_vars


\* ------------------------------------------------------------------------
\* GET /opensky/flights (src/api/main.py lines 454-470) over
\* OpenSkyClient.get_flights (lines 212-251)

\* Retry(total = MAX_RETRIES) of the client's session (lines 131, 144-148)
MAX_RETRIES == 3

\* requests made to the endpoint, and valid state vectors upstream answers
MaxRequests == 2
MaxFlights == 4

\* how the upstream request can fail: no connection or timeout, a status of
\* the retry list (429, 500, 502, 503, 504), another non-2xx status, a body
\* that is not the expected JSON
Failures == {"network", "busy", "status", "payload"}

\* str(e) of the HTTPException caught at line 469, as the installed
\* framework formats it: status and detail, or nothing
Details == {"503: OpenSky API error", ""}

\* what no step of the flights endpoint touches
noflights == <<config, start_time, cursor, pc, frame, slept, now, engine, other,
               server, client_conversations, current_idx, received, response,
               pulls, fetch, asked, served, stream, trial>>

\* a caller requests /opensky/flights?limit=..: the endpoint calls
\* opensky_client.get_flights, which sends the upstream request (line 213)
FlightsRequest(limit) ==
    /\ server = "up"
    /\ flights.pc \in {"idle", "done"}
    /\ flights.requests < MaxRequests
    /\ flights' = [NoRequest EXCEPT !.pc = "sent", !.requests = flights.requests + 1,
                                    !.limit = limit]
    /\ UNCHANGED noflights

\* the session retries a failed connection or a status of the retry list
\* while retries are left (lines 144-148)
FlightsRetry(f) ==
    /\ flights.pc = "sent"
    /\ f \in {"network", "busy"}
    /\ flights.attempts < MAX_RETRIES
    /\ flights' = [flights EXCEPT !.attempts = @ + 1]
    /\ UNCHANGED noflights

\* upstream answers 200 with k valid state vectors: get_flights returns
\* them and the endpoint answers flights[:limit] (lines 219-248, 467-468)
FlightsAnswered(k) ==
    /\ flights.pc = "sent"
    /\ flights' = [flights EXCEPT !.pc = "done", !.answered = k, !.status = 200,
                                  !.returned = Min(k, flights.limit)]
    /\ UNCHANGED noflights

\* the upstream request fails for good: session.get, raise_for_status or
\* response.json raises and get_flights raises HTTPException(503, "OpenSky
\* API error: ..") (lines 250-251)
FlightsRaise(f) ==
    /\ flights.pc = "sent"
    /\ f \in {"network", "busy"} => flights.attempts = MAX_RETRIES
    /\ flights' = [flights EXCEPT !.pc = "raised", !.failure = f, !.status = 503,
                                  !.detail = "OpenSky API error"]
    /\ UNCHANGED noflights

\* the endpoint's except Exception catches the HTTPException of get_flights
\* and raises HTTPException(500, str(e)) (lines 469-470)
FlightsCaught(d) ==
    /\ flights.pc = "raised"
    /\ flights' = [flights EXCEPT !.pc = "done", !.status = 500, !.detail = d]
    /\ UNCHANGED noflights

NextFlights ==
    \/ \E limit \in 1..MaxLimit : FlightsRequest(limit)
    \/ \E f \in Failures : FlightsRetry(f)
    \/ \E k \in 0..MaxFlights : FlightsAnswered(k)
    \/ \E f \in Failures : FlightsRaise(f)
    \/ \E d \in Details : FlightsCaught(d)

SpecFlights == InitApi /\ [][NextFlights]_vars


\* ------------------------------------------------------------------------
\* the consumer loops over get_utterances: /transcript/stream (lines
\* 546-577), /transcript/stream/high-throughput (lines 580-657),
\* /transcript/stream/continuous (lines 660-708) and test_throughput
\* (src/api/test_throughput.py lines 9-49), while the client stays connected

\* the smallest max_utterances of /transcript/stream (ge=5, line 549) and
\* the smallest chunk_size of the chunked endpoints (ge=10, lines 582, 662)
MinTotal == 5
MinChunk == 10

\* the largest total asked for, and the utterances an endless stream is
\* followed for
MaxTotal == 6
MaxSent == 8

\* the requests of another client while a stream is followed
MaxForeign == 1

\* the loop never ends: /transcript/stream/continuous (while True, line
\* 678), or infinite_mode of the high-throughput endpoint (line 599)
Infinite ==
    \/ stream.kind = "continuous"
    \/ stream.kind = "high" /\ stream.total = 0

\* the limit of the loop's next get_utterances call (lines 558, 603-608,
\* 679; test_throughput.py lines 22-25)
StreamLimit ==
    IF stream.kind = "stream" THEN 1
    ELSE IF Infinite THEN stream.chunk_size
    ELSE Min(stream.chunk_size, stream.total - stream.sent)

\* what no step of a consumer loop touches
nostream == <<config, start_time, cursor, pc, frame, slept, now, engine, other,
              server, client_conversations, received, pulls, fetch, flights,
              trial>>

\* a client opens a stream, or test_throughput(n, chunk_size) is called:
\* the counters start at 0 (lines 555, 597-599, 674-676)
StreamOpen(kind, chunk_size, n) ==
    /\ server = "up"
    /\ stream.pc = "off"
    /\ kind = "stream" => chunk_size = 1 /\ n >= MinTotal
    /\ kind = "high" => chunk_size = MinChunk
    /\ kind = "continuous" => chunk_size = MinChunk /\ n = 0
    /\ kind = "test" => chunk_size <= MaxLimit /\ n >= 1
    /\ stream' = [NoStream EXCEPT !.pc = "loop", !.kind = kind,
                                  !.chunk_size = chunk_size, !.total = n]
    /\ UNCHANGED <<nostream, current_idx, response, asked, served>>

\* as StreamChunk, but every call asks for chunk_size, whatever remains
StreamChunkAsksChunkSize ==
    /\ server = "up"
    /\ stream.pc = "loop"
    /\ Infinite \/ stream.sent < stream.total
    /\ Infinite => stream.sent < MaxSent
    /\ LET limit == IF stream.kind = "stream" THEN 1 ELSE stream.chunk_size
           utterances == Stamped(limit)
       IN  /\ response' = utterances
           /\ asked' = limit
           /\ served' = served \o UKeys(utterances)
           /\ current_idx' = IF EndIdx(limit) >= Len(client_conversations)
                               THEN 0 ELSE EndIdx(limit)
           /\ stream' = [stream EXCEPT !.sent = @ + Len(utterances),
                                       !.sizes = Append(@, Len(utterances)),
                                       !.reported = stream.sent + Len(utterances)]
    /\ UNCHANGED nostream

\* as StreamChunk, but the chunk reports the total before its own records
StreamChunkReportsBefore ==
    /\ server = "up"
    /\ stream.pc = "loop"
    /\ Infinite \/ stream.sent < stream.total
    /\ Infinite => stream.sent < MaxSent
    /\ LET limit == StreamLimit
           utterances == Stamped(limit)
       IN  /\ response' = utterances
           /\ asked' = limit
           /\ served' = served \o UKeys(utterances)
           /\ current_idx' = IF EndIdx(limit) >= Len(client_conversations)
                               THEN 0 ELSE EndIdx(limit)
           /\ stream' = [stream EXCEPT !.sent = @ + Len(utterances),
                                       !.sizes = Append(@, Len(utterances)),
                                       !.reported = stream.sent]
    /\ UNCHANGED nostream

\* one iteration of the loop: get_utterances(limit) and, when it returned
\* records, one chunk event with the running total and the count's update
\* (lines 557-570, 601-636, 678-703; test_throughput.py lines 21-26)
StreamChunk ==
    /\ server = "up"
    /\ stream.pc = "loop"
    /\ Infinite \/ stream.sent < stream.total
    /\ Infinite => stream.sent < MaxSent
    /\ LET limit == StreamLimit
           utterances == IF client_conversations = <<>> THEN <<>> ELSE Stamped(limit)
       IN  /\ response' = utterances
           /\ asked' = limit
           /\ served' = served \o UKeys(utterances)
           /\ current_idx' = IF client_conversations = <<>> THEN current_idx
                             ELSE IF EndIdx(limit) >= Len(client_conversations)
                               THEN 0 ELSE EndIdx(limit)
           /\ stream' = IF utterances = <<>> THEN stream
                        ELSE [stream EXCEPT !.sent = @ + Len(utterances),
                                            !.sizes = Append(@, Len(utterances)),
                                            !.reported = stream.sent + Len(utterances)]
    /\ UNCHANGED nostream

\* the loop's condition is false: the endpoints emit the 'complete' event
\* with the count (lines 572, 640-652); test_throughput returns
StreamComplete ==
    /\ stream.pc = "loop"
    /\ ~Infinite
    /\ ~(stream.sent < stream.total)
    /\ stream' = IF stream.kind = "test"
                   THEN [stream EXCEPT !.pc = "done"]
                   ELSE [stream EXCEPT !.pc = "done", !.complete = @ + 1,
                                       !.completed_total = stream.sent]
    /\ UNCHANGED <<nostream, current_idx, response, asked, served>>

\* the steps of a consumer loop and, before it or between two of its
\* iterations, one request of another client
NextStream ==
    \/ \E kind \in {"stream", "high", "continuous", "test"},
          chunk_size \in (1..MaxLimit) \cup {MinChunk}, n \in 0..MaxTotal :
              StreamOpen(kind, chunk_size, n)
    \/ StreamChunk
    \/ StreamComplete
    \/ \E limit \in 1..MaxLimit : pulls < MaxForeign /\ GetUtterances("a", limit)

\* the event loop resumes a generator whose sleep is over, and
\* test_throughput is a sequential loop
SpecStream ==
    /\ InitApi
    /\ [][NextStream]_vars
    /\ WF_vars(StreamChunk)
    /\ WF_vars(StreamComplete)


\* --------------------------------------------------- the corpus, flattened
\* the utterances of the corpus in corpus order, as the keys of their records
RECURSIVE FlatFrom(_)
FlatFrom(c) ==
    IF c > Len(conversations) THEN <<>>
    ELSE LET conversation == conversations[c]
         IN  [j \in 1..Len(conversation.utterances) |->
                 <<conversation.conversation_id, j - 1,
                   conversation.utterances[j].speaker,
                   conversation.utterances[j].text>>] \o FlatFrom(c + 1)

Flat == FlatFrom(1)

\* sum over conversations of the utterance count
TotalUtterances == Len(Flat)

\* number of utterances in the conversations before index c (0-based)
RECURSIVE Before(_)
Before(c) ==
    IF c <= 0 THEN 0
    ELSE Before(c - 1)
         + (IF c <= Len(conversations) THEN Len(conversations[c].utterances) ELSE 0)

\* number of utterances of the corpus before the position of offset o
Pos(o) == Before(o.conversation_idx) + o.utterance_idx

\* ------------------------------------------------------------------ claims
\* C1: two reads from the same start offset return the same utterances
\* (conversation_id, utterance_id, speaker, text) and the same new offset,
\* whatever the reader read before and also when the second read is made by
\* a reader constructed after a restart.
ReadIsDeterministic ==
    (result.op = "read" /\ last.op = "read" /\ result.start = last.start)
        => /\ Keys(result.batch) = Keys(last.batch)
           /\ result.new_offset = last.new_offset

\* C1 witness: after two reads of the stream, the second is read again by a
\* reader constructed later, and gives a full batch
ReadIsDeterministicWitness ==
    /\ result.op = "read" /\ last.op = "read"
    /\ result.start = last.start
    /\ result.start # position
    /\ result.start # initialOffset
    /\ result.start_time # last.start_time
    /\ Len(result.batch) = CHUNK_SIZE

\* C2: readBetweenOffsets(start, end), for the range of a read, yields the
\* records of that read, equal in every field, also after a restart.
ReplayIsExact ==
    (/\ result.op = "readBetweenOffsets" /\ last.op = "read"
     /\ result.start = last.start /\ result.end = last.new_offset)
        => result.batch = last.batch


\* the engine has read its stream and the reader is idle again
StreamRead == pc = "idle" /\ last.op = "read"

\* delivered is the corpus from its start, with nothing skipped or repeated
\* (delivered changes when a read returns: the idle states show every value)
InCorpusOrder ==
    pc = "idle" =>
        LET flat == Flat
        IN  /\ Len(delivered) <= Len(flat)
            /\ delivered = SubSeq(flat, 1, Len(delivered))

\* C3 as stated: with looping disabled the reads of the stream emit the
\* corpus in order, CHUNK_SIZE records a read until all TotalUtterances are
\* out, and nothing afterwards; for every max_utterances.
TotalCoverageWhateverMax ==
    ~loop =>
        /\ InCorpusOrder
        /\ pc = "idle" => Len(delivered) = Min(TotalUtterances, reads * CHUNK_SIZE)
        /\ (StreamRead /\ last.start.total_sent = TotalUtterances)
               => last.batch = <<>>

\* C3 amended: with looping disabled the reads of the stream emit the corpus
\* in order, nothing skipped or repeated; with max_utterances unlimited
\* (-1) they emit CHUNK_SIZE records a read until all TotalUtterances are
\* out, and only empty batches afterwards.
TotalCoveragePerLap ==
    ~loop =>
        /\ InCorpusOrder
        /\ max_utterances = -1 =>
              /\ pc = "idle" =>
                    Len(delivered) = Min(TotalUtterances, reads * CHUNK_SIZE)
              /\ (StreamRead /\ last.start.total_sent = TotalUtterances)
                    => last.batch = <<>>

\* C3 witness: a corpus of more than CHUNK_SIZE utterances is out after a
\* full and a partial batch, and the read after them is empty
TotalCoveragePerLapWitness ==
    /\ ~loop /\ max_utterances = -1
    /\ StreamRead /\ reads > 2
    /\ TotalUtterances > CHUNK_SIZE
    /\ Len(delivered) = TotalUtterances
    /\ last.batch = <<>>

\* the record at place i of the stream is the corpus's last utterance (the
\* last of flat, the flattened corpus) and another record follows it
AfterLast(i, flat) ==
    /\ i < Len(delivered)
    /\ Len(flat) > 0
    /\ delivered[i] = flat[Len(flat)]

\* total_sent of the stream's offset counts the records of the stream
CounterContinues == pc = "idle" => position.total_sent = Len(delivered)

\* C4 as stated: with looping enabled the record after the corpus's last
\* utterance is utterance 0 of conversation 0, and total_sent is not reset.
LoopToConversationZero ==
    (loop /\ pc = "idle") =>
        /\ LET flat == Flat
           IN  \A i \in 1..Len(delivered) :
                 AfterLast(i, flat) =>
                     /\ delivered[i + 1][1] = conversations[1].conversation_id
                     /\ delivered[i + 1][2] = 0
        /\ CounterContinues

\* C4 amended: with looping enabled the record after the corpus's last
\* utterance is utterance 0 of the first conversation that has an
\* utterance, and total_sent is not reset.
LoopContinuity ==
    (loop /\ pc = "idle") =>
        /\ LET flat == Flat
           IN  \A i \in 1..Len(delivered) :
                 AfterLast(i, flat) =>
                     delivered[i + 1] = flat[1] /\ delivered[i + 1][2] = 0
        /\ CounterContinues

\* C4 witness: the last utterance ends one read and the next read begins
\* after the wrap, in a corpus whose conversation 0 is empty
LoopContinuityWitness ==
    /\ loop /\ pc = "idle"
    /\ conversations[1].utterances = <<>>
    /\ AfterLast(CHUNK_SIZE, Flat)
    /\ position.total_sent = 2 * CHUNK_SIZE

\* max_utterances stops a read from offset o (lines 349-352)
Stopped(o) == max_utterances > 0 /\ o.total_sent >= max_utterances /\ ~loop

\* the read of offset o returned k records: the utterances after o, in order
NextUtterances(c, k) ==
    /\ Pos(c.start) + k <= TotalUtterances
    /\ Keys(c.batch) = SubSeq(Flat, Pos(c.start) + 1, Pos(c.start) + k)

BatchBoundary(c) ==
    LET r == TotalUtterances - Pos(c.start)
    IN  /\ Len(c.batch) = Min(r, CHUNK_SIZE)
        /\ NextUtterances(c, Len(c.batch))
        /\ r < CHUNK_SIZE =>
              c.new_offset = Offset(Len(conversations), 0, c.start.total_sent + r)

\* C5 as stated: with looping disabled a read from an offset with r
\* utterances remaining returns the next min(r, CHUNK_SIZE) of them, and the
\* terminal offset when r < CHUNK_SIZE; for every max_utterances.
BatchBoundaryWhateverMax ==
    (~loop /\ result.op = "read") => BatchBoundary(result)

\* C5 amended: the same, for a read that max_utterances does not stop
\* (max_utterances <= 0 or start.total_sent < max_utterances).
BatchBoundaryCorrect ==
    (~loop /\ result.op = "read" /\ ~Stopped(result.start))
        => BatchBoundary(result)

\* C5 witness: a partial batch, from an offset inside the corpus
BatchBoundaryCorrectWitness ==
    /\ ~loop /\ result.op = "read" /\ ~Stopped(result.start)
    /\ result.start # initialOffset
    /\ Len(result.batch) > 0 /\ Len(result.batch) < CHUNK_SIZE
    /\ result.new_offset.conversation_idx = Len(conversations)
    /\ result.new_offset.utterance_idx = 0

TotalSentCounts ==
    /\ result.op # "none" =>
          result.new_offset.total_sent = result.start.total_sent + Len(result.batch)
    /\ CounterContinues
    /\ pc # "idle" => Len(batch) = utterances_collected

\* C7 witness: the stream has wrapped and its counter is past the corpus
TotalSentCountsWitness ==
    /\ loop /\ pc = "idle" /\ result.op = "read"
    /\ TotalUtterances > 0
    /\ position.total_sent = MaxReads * CHUNK_SIZE
    /\ position.total_sent > TotalUtterances

\* offset o addresses an utterance of the corpus
AddressesUtterance(o) ==
    /\ o.conversation_idx < Len(conversations)
    /\ o.utterance_idx < Len(conversations[o.conversation_idx + 1].utterances)

\* C8 as stated: a returned offset addresses an utterance of the corpus, or
\* conversation_idx and utterance_idx are both 0.
OffsetAddressesUtterance ==
    result.op = "read" =>
        \/ AddressesUtterance(result.new_offset)
        \/ result.new_offset.conversation_idx = 0
              /\ result.new_offset.utterance_idx = 0

\* C8 amended: a returned offset addresses an utterance of the corpus or
\* the place right after the last utterance of a conversation
\* (utterance_idx = that conversation's utterance count), or it is the
\* exhausted offset (conversation_idx = number of conversations,
\* utterance_idx = 0).
OffsetValid ==
    result.op = "read" =>
        LET o == result.new_offset
        IN  /\ o.conversation_idx >= 0 /\ o.utterance_idx >= 0
            /\ o.conversation_idx <= Len(conversations)
            /\ o.conversation_idx < Len(conversations) =>
                  o.utterance_idx <= Len(conversations[o.conversation_idx + 1].utterances)
            /\ o.conversation_idx = Len(conversations) => o.utterance_idx = 0

\* C8 witness: a read returns the place right after the last utterance of
\* a conversation that is not conversation 0
OffsetValidWitness ==
    /\ result.op = "read"
    /\ result.new_offset.conversation_idx > 0
    /\ result.new_offset.conversation_idx < Len(conversations)
    /\ result.new_offset.utterance_idx
           = Len(conversations[result.new_offset.conversation_idx + 1].utterances)
    /\ result.new_offset.utterance_idx > 0

\* C9: two reads from start offsets that agree on conversation_idx and
\* utterance_idx and differ in total_sent emit the same utterances and
\* return the same conversation_idx and utterance_idx, for every
\* configuration.
TotalSentInformational ==
    (/\ result.op = "read" /\ last.op = "read"
     /\ result.start.conversation_idx = last.start.conversation_idx
     /\ result.start.utterance_idx = last.start.utterance_idx)
        => /\ Keys(result.batch) = Keys(last.batch)
           /\ result.new_offset.conversation_idx = last.new_offset.conversation_idx
           /\ result.new_offset.utterance_idx = last.new_offset.utterance_idx

\* C10: a read that has begun returns, for every corpus with at least one
\* conversation, every start offset and either looping setting.
ReadTerminates == (pc # "idle") ~> (pc = "idle")

\* C11: with looping disabled, once a read of the stream has returned fewer
\* than CHUNK_SIZE records, every later read started from the offset the
\* stream has reached since returns an empty batch and exactly the offset
\* it was given.
TerminalStable ==
    [][(/\ ~loop
        /\ last.op = "read" /\ Len(last.batch) < CHUNK_SIZE
        /\ result'.op = "read" /\ result'.start = last.new_offset)
           => (result'.batch = <<>> /\ result'.new_offset = result'.start)]_vars

\* C11 witness: the stream has delivered the whole corpus in a short batch
\* and a later read has returned nothing and the exhausted offset
TerminalStableWitness ==
    /\ ~loop /\ max_utterances = -1 /\ pc = "idle"
    /\ reads > 1
    /\ delivered # <<>> /\ Len(delivered) < CHUNK_SIZE
    /\ result.op = "read" /\ result.start = position
    /\ result.batch = <<>> /\ result.new_offset = result.start
    /\ position.conversation_idx = Len(conversations)
    /\ position.utterance_idx = 0

\* C12: whenever the reader indexes the conversation list (line 369) the
\* index is at least 0 and below the number of conversations, and the
\* utterance index it then compares and uses (lines 372, 379) is at least
\* 0; line 379 is only reached below the conversation's utterance count.
IndexInRange ==
    /\ AtConversation =>
          /\ current_conversation_idx >= 0
          /\ current_conversation_idx < Len(conversations)
          /\ current_utterance_idx >= 0
    /\ pc # "idle" =>
          /\ start.conversation_idx >= 0
          /\ start.utterance_idx >= 0

\* C12 witness: the reader has looped back in a read that did not start at
\* conversation 0 and indexes the conversation list again
IndexInRangeWitness ==
    /\ pc = "conv" /\ loop
    /\ start.conversation_idx > 0
    /\ utterances_collected > 0
    /\ current_conversation_idx = 0
    /\ start.utterance_idx > 0

\* C17: with max_utterances a positive number, the total_sent of every
\* returned offset is at most max_utterances, with looping on and off.
MaxUtterancesIsMaximum ==
    (max_utterances > 0 /\ result.op = "read")
        => result.new_offset.total_sent <= max_utterances

\* C18: the position restored from offset o (lines 343-346) and emitted
\* again as an offset (lines 410-415) before any record is produced is o
\* in all three fields.
OffsetRoundTrip ==
    [][(pc = "idle" /\ pc' = "loop") => NewOffset' = start']_vars

\* C18 witness: the position is restored from an offset inside a later
\* conversation, after records have been counted
OffsetRoundTripWitness ==
    /\ pc = "loop" /\ utterances_collected = 0
    /\ start.conversation_idx > 0 /\ start.utterance_idx > 0
    /\ start.total_sent > 0
    /\ current_conversation_idx = start.conversation_idx
    /\ current_utterance_idx = start.utterance_idx
    /\ NewOffset = start

\* a step of read is inside the call
InRead == pc \in {"loop", "conv", "ret"}

\* a step crosses a conversation boundary (lines 373-374): conversation_idx
\* moves to the next conversation and utterance_idx is reset to 0
Crossing ==
    /\ current_conversation_idx' = current_conversation_idx + 1
    /\ current_utterance_idx' = 0

\* a step loops back from the end of the corpus to conversation 0 (lines
\* 361-362)
Wrap ==
    /\ current_conversation_idx >= Len(conversations)
    /\ current_conversation_idx' = 0
    /\ current_utterance_idx' = 0

\* C19 as stated: with conversation_delay > 0, a step of read makes the
\* inter-conversation pause exactly when it crosses a conversation boundary.
PauseAtCrossingOnly ==
    [][(InRead /\ conversation_delay > 0)
          => ((slept' = "conversation") <=> Crossing)]_vars

\* C19 amended: with conversation_delay > 0, a step of read makes the
\* inter-conversation pause, once, exactly when it crosses a conversation
\* boundary or loops back from the end of the corpus to conversation 0.
PauseAtCrossingOrWrap ==
    [][(InRead /\ conversation_delay > 0)
          => ((slept' = "conversation") <=> (Crossing \/ Wrap))]_vars

\* C19 witness: a read that has emitted records has paused on looping back
PauseAtCrossingOrWrapWitness ==
    /\ pc = "conv" /\ slept = "conversation" /\ conversation_delay > 0
    /\ utterances_collected > 0
    /\ current_conversation_idx = 0 /\ current_utterance_idx = 0
    /\ Len(conversations) > 1

CorpusReadOnly ==
    [][/\ conversations' = conversations
       /\ client_conversations' = client_conversations]_vars

\* C14 witness: get_utterances has returned dicts with a timestamp, has
\* wrapped, and the stored dicts have none
CorpusReadOnlyWitness ==
    /\ server = "up" /\ pulls > 1
    /\ response # <<>> /\ response[1].timestamp = now
    /\ Len(received["a"]) > Len(client_conversations)
    /\ \A i \in 1..Len(client_conversations) :
          client_conversations[i].timestamp = -1

\* C16: what a caller has received from its own successive pulls is what
\* those pulls return when no other caller pulls: the dataset in order
\* from its first utterance, cyclically.
CallerSeesOwnPulls ==
    \A c \in Callers :
        \A i \in 1..Len(received[c]) :
            received[c][i] =
                UKey(client_conversations[((i - 1) % Len(client_conversations)) + 1])

\* the corpus has an utterance
HasUtterance ==
    \E i \in 1..Len(conversations) : conversations[i].utterances # <<>>

\* the completed call c of an instance constructed at c.start_time is what
\* read returns for c.start when the instance runs alone
AsAlone(c) ==
    c.op = "read" =>
        LET alone == ReadAlone(c.start)
        IN  /\ Keys(c.batch) = alone.keys
            /\ c.new_offset = alone.new_offset
            /\ \A i \in 1..Len(c.batch) :
                  c.batch[i].timestamp
                      = c.start_time
                          + Microseconds((c.start.total_sent + i - 1) * utterance_delay)

\* C15: when the steps of two reader instances with their own offsets
\* interleave in any way over the same corpus, each read of each instance
\* returns the batch and the offset it returns when the instance runs
\* alone (when the read returns: the corpus has an utterance or looping is
\* off).
IndependentReaders ==
    (loop => HasUtterance) => (AsAlone(result) /\ AsAlone(other.result))

\* C15 witness: one instance has completed a read of a full batch whose
\* steps were taken while the other instance was in the middle of its own
\* read, at another place of the corpus
IndependentReadersWitness ==
    /\ result.op = "read" /\ Len(result.batch) = CHUNK_SIZE
    /\ other.pc = "loop" /\ other.utterances_collected > 0
    /\ other.utterances_collected < CHUNK_SIZE
    /\ other.current_conversation_idx # current_conversation_idx
    /\ other.reads = 1 /\ reads = 1

\* C20: fetch(limit) makes at most FetchRetries retries after a transient
\* failure, returns an empty batch when every attempt has failed, and never
\* ends by raising an error to its caller; an answered attempt returns at
\* most limit records.
FetchDegrades ==
    /\ fetch.pc \in {"idle", "trying", "done"}
    /\ fetch.attempts <= FetchRetries + 1
    /\ fetch.pc = "trying" => fetch.attempts <= FetchRetries
    /\ (fetch.pc = "done" /\ fetch.attempts = FetchRetries + 1) => fetch.batch = <<>>
    /\ Len(fetch.batch) <= fetch.limit

\* C20 witness: a fetch whose attempts all failed has returned an empty
\* batch, after an earlier fetch
FetchDegradesWitness ==
    /\ fetch.pc = "done"
    /\ fetch.attempts = FetchRetries + 1
    /\ fetch.batch = <<>>
    /\ fetch.calls > 1

\* sum over conversations of the utterance count, without the keys
Total == Before(Len(conversations))

\* C28: with max_utterances unset (-1) and a corpus of Total > 0
\* utterances, every offset o a read returns has Pos(o) = o.total_sent <=
\* Total with looping disabled, and Pos(o) congruent to o.total_sent
\* modulo Total with looping enabled.
PositionCounter ==
    (max_utterances = -1 /\ result.op = "read" /\ HasUtterance) =>
        LET o == result.new_offset
        IN  IF loop
              THEN Pos(o) % Total = o.total_sent % Total
              ELSE Pos(o) = o.total_sent /\ o.total_sent <= Total

\* C28 witness: a looping stream is in its second lap, inside the corpus
PositionCounterWitness ==
    /\ max_utterances = -1 /\ loop /\ result.op = "read" /\ HasUtterance
    /\ result.new_offset.total_sent > Total
    /\ Pos(result.new_offset) < Total
    /\ Pos(result.new_offset) > 0
    /\ Len(conversations) > 1

\* C29 as stated: a read that returns an empty batch returns its start
\* offset, equal in all three fields.
EmptyReadKeepsOffset ==
    (result.op = "read" /\ result.batch = <<>>)
        => result.new_offset = result.start

\* C29 amended: a read that returns an empty batch returns the total_sent
\* of its start offset, and either the start offset itself or, when the
\* start offset is at the end of the corpus without being the exhausted
\* offset (looping disabled), the exhausted offset (number of
\* conversations, 0).
EmptyReadKeepsPlace ==
    (result.op = "read" /\ result.batch = <<>>) =>
        /\ result.new_offset.total_sent = result.start.total_sent
        /\ \/ result.new_offset = result.start
           \/ /\ ~loop /\ ~Stopped(result.start)
              /\ Pos(result.start) = Total
              /\ result.start.conversation_idx < Len(conversations)
              /\ result.new_offset
                    = Offset(Len(conversations), 0, result.start.total_sent)
        /\ (Stopped(result.start)
              \/ result.start.conversation_idx >= Len(conversations))
              => result.new_offset = result.start

\* C29 witness: an empty read from right after the last utterance returns
\* the exhausted offset
EmptyReadKeepsPlaceWitness ==
    /\ result.op = "read" /\ result.batch = <<>>
    /\ result.start.utterance_idx > 0
    /\ result.start.total_sent = CHUNK_SIZE
    /\ result.new_offset # result.start
    /\ result.new_offset.conversation_idx = Len(conversations)

\* C30: with looping enabled and an utterance in the corpus, every offset
\* a read returns is the place one past the last emitted record:
\* conversation_idx below the number of conversations and utterance_idx
\* from 1 to that conversation's utterance count; never (0, 0) and never
\* (number of conversations, 0).
OnePastLastEmitted ==
    (loop /\ HasUtterance /\ result.op = "read") =>
        LET o == result.new_offset
        IN  /\ o.conversation_idx >= 0
            /\ o.conversation_idx < Len(conversations)
            /\ o.utterance_idx >= 1
            /\ o.utterance_idx <= Len(conversations[o.conversation_idx + 1].utterances)
            /\ result.batch # <<>>
            /\ o.utterance_idx = result.batch[Len(result.batch)].utterance_id + 1

\* C30 witness: the batch ends with the last utterance of the corpus and
\* the offset is not wrapped
OnePastLastEmittedWitness ==
    /\ loop /\ HasUtterance /\ result.op = "read"
    /\ result.new_offset.conversation_idx = Len(conversations) - 1
    /\ result.new_offset.utterance_idx
          = Len(conversations[Len(conversations)].utterances)
    /\ result.start # initialOffset

\* C23: get_utterances(limit = n) with n >= 1 on a non-empty dataset
\* returns exactly n records, whatever the position.
ExactlyLimit ==
    (server = "up" /\ pulls > 0 /\ client_conversations # <<>>)
        => Len(response) = asked

ServedInFileOrder ==
    server = "up" =>
        \A i \in 1..Len(served) :
            served[i] = UKey(client_conversations[((i - 1) % Len(client_conversations)) + 1])

\* C26 witness: both callers have received records and the dataset has
\* been served more than once round
ServedInFileOrderWitness ==
    /\ server = "up"
    /\ received["a"] # <<>> /\ received["b"] # <<>>
    /\ Len(client_conversations) > 1
    /\ Len(served) > Len(client_conversations)
    /\ Len(served) = Len(received["a"]) + Len(received["b"])

\* C24: when the upstream request of get_flights fails (network error,
\* non-2xx status, bad payload), the caller of /opensky/flights is answered
\* status 503 with an 'OpenSky API error' detail.
UpstreamFailureIs503 ==
    (flights.pc = "done" /\ flights.failure # "none")
        => flights.status = 503 /\ flights.detail = "OpenSky API error"

\* the sum of the chunk sizes of a stream
RECURSIVE SumSeq(_)
SumSeq(q) == IF q = <<>> THEN 0 ELSE q[1] + SumSeq(Tail(q))

\* a consumer loop for a requested total is running or has finished
Bounded == stream.pc \in {"loop", "done"} /\ ~Infinite

\* C21: for a non-empty dataset, a consumer loop calling get_utterances
\* with limit = min(chunk size, remaining) until n utterances were received
\* (test_throughput, the high-throughput endpoint with total_utterances =
\* n > 0, /transcript/stream with max_utterances = n) terminates, its
\* running count never exceeds n, it finishes with exactly n received, also
\* when the position wraps, and the endpoints then emit exactly one
\* 'complete' event whose total is n.
BoundedStreamDelivers ==
    /\ [](Bounded =>
             /\ stream.sent <= stream.total
             /\ stream.sent = SumSeq(stream.sizes)
             /\ stream.pc = "loop" => stream.complete = 0
             /\ stream.pc = "done" =>
                    /\ stream.sent = stream.total
                    /\ stream.kind = "test" => stream.complete = 0
                    /\ stream.kind # "test" =>
                           stream.complete = 1 /\ stream.completed_total = stream.total)
    /\ (Bounded /\ stream.pc = "loop") ~> (stream.pc = "done")

\* C21 witness: the high-throughput stream has finished a total larger
\* than the dataset, in several chunks, with another client's requests in
\* between
BoundedStreamDeliversWitness ==
    /\ stream.pc = "done" /\ stream.kind = "high"
    /\ stream.total > Len(client_conversations)
    /\ Len(stream.sizes) >= 2
    /\ stream.complete = 1
    /\ pulls > 0
    /\ Len(served) = stream.total + Len(received["a"])
    /\ Len(received["a"]) > 0

\* C22: for a non-empty dataset, /transcript/stream/continuous and the
\* high-throughput endpoint with total_utterances = 0 keep emitting
\* non-empty chunks (every chunk is eventually followed by another), never
\* emit a 'complete' event, and the reported total_sent is the sum of the
\* sizes of the chunks emitted so far. The stream is followed up to MaxSent
\* utterances: from every point before, it gets there.
InfiniteStreamNeverStops ==
    /\ [](Infinite =>
             /\ stream.pc = "loop"
             /\ stream.complete = 0
             /\ stream.reported = SumSeq(stream.sizes)
             /\ \A i \in 1..Len(stream.sizes) : stream.sizes[i] >= 1)
    /\ (Infinite /\ stream.sent < MaxSent) ~> (Infinite /\ stream.sent >= MaxSent)

\* C22 witness: the continuous stream has emitted chunks past the end of
\* the dataset, with another client's requests in between
InfiniteStreamNeverStopsWitness ==
    /\ stream.kind = "continuous" /\ stream.pc = "loop"
    /\ Len(stream.sizes) >= 3
    /\ stream.sent > Len(client_conversations)
    /\ stream.reported = stream.sent
    /\ Len(received["a"]) > 0

\* C27: for every reachable offset o and batch sizes k1, k2 >= 1, a read of
\* k1 records from o followed by a read of k2 records from the returned
\* offset yields, concatenated, the record sequence and the final offset of
\* a single read of k1 + k2 records from o, with and without looping.
BatchingIndependent ==
    trial.k1 > 0 =>
        /\ trial.first \o trial.second = trial.single
        /\ trial.split_offset = trial.single_offset

\* record r is an utterance of the corpus
InCorpus(r) ==
    \E i \in 1..Len(conversations) :
        /\ conversations[i].conversation_id = r.conversation_id
        /\ r.utterance_id < Len(conversations[i].utterances)
        /\ conversations[i].utterances[r.utterance_id + 1].speaker = r.speaker
        /\ conversations[i].utterances[r.utterance_id + 1].text = r.text

\* the first utterance after conversation c (0-based), from the start of
\* the corpus when there is none
FirstAfter(c) ==
    IF FlatFrom(c + 2) # <<>> THEN FlatFrom(c + 2)[1] ELSE Flat[1]

\* C31: for every offset with non-negative fields, one persisted before a
\* restart against a corpus of other conversation lengths included, read
\* indexes no conversation and no utterance that is not there and emits only
\* records of the current corpus; it moves to the next conversation when
\* utterance_idx is past the end, and wraps (looping) or stops (not looping)
\* when conversation_idx is past the end.
ResumeSafe ==
    /\ pc = "conv" => current_conversation_idx < Len(conversations)
    /\ pc \in {"loop", "conv", "ret"} => \A i \in 1..Len(batch) : InCorpus(batch[i])
    /\ (pc = "idle" /\ result.op = "read") =>
          LET s == result.start
              keys == Keys(result.batch)
          IN  /\ \A i \in 1..Len(result.batch) : InCorpus(result.batch[i])
              /\ (s.conversation_idx >= Len(conversations) /\ ~loop) =>
                    result.batch = <<>> /\ result.new_offset = s
              /\ (s.conversation_idx >= Len(conversations) /\ loop /\ keys # <<>>) =>
                    keys[1] = Flat[1]
              /\ (/\ s.conversation_idx < Len(conversations)
                  /\ s.utterance_idx >=
                        Len(conversations[s.conversation_idx + 1].utterances)
                  /\ keys # <<>>) =>
                    keys[1] = FirstAfter(s.conversation_idx)

\* C31 witness: after the restart a read from an offset whose utterance_idx
\* is beyond the end of its conversation in the new corpus has returned
\* records
ResumeSafeWitness ==
    /\ now > 0
    /\ pc = "idle" /\ result.op = "read"
    /\ result.start.conversation_idx < Len(conversations)
    /\ result.start.utterance_idx >
          Len(conversations[result.start.conversation_idx + 1].utterances)
    /\ result.batch # <<>>

\* ------------------------------------------------------------------------
\* readBetweenOffsets over other ranges (lines 424-427)

\* the reads an end offset is ahead of its start offset, at most
MaxAhead == 2

\* the offset n reads after offset s
RECURSIVE Ahead(_, _)
Ahead(s, n) == IF n = 0 THEN s ELSE Ahead(ReadAlone(s).new_offset, n - 1)

\* the utterances the reads from offset s up to offset e return, e being at
\* most n reads after s
RECURSIVE Between(_, _, _)
Between(s, e, n) ==
    IF s = e \/ n = 0 THEN <<>>
    ELSE LET r == ReadAlone(s)
         IN  r.keys \o Between(r.new_offset, e, n - 1)

\* the calls of the engine: the next read of its stream, and
\* readBetweenOffsets(s, e) for s the start of the latest read or the
\* offset reached, and e the offset 0..MaxAhead reads after s
RangeCalls ==
    {<<"read", position, position>>}
    \cup {<<"readBetweenOffsets", s, Ahead(s, n)>> :
            s \in {last.start, position},
            n \in IF loop /\ ~HasUtterance THEN {0} ELSE 0..MaxAhead}

NextRange ==
    \/ pc = "idle" /\ \E c \in RangeCalls : ReadNothing(c[1], c[2], c[3])
    \/ pc = "idle" /\ \E c \in RangeCalls : ReadBegin(c[1], c[2], c[3])
    \/ LoopBack
    \/ EndOfConversations
    \/ NextConversation
    \/ EmitUtterance
    \/ ReadReturn

SpecRange == Init /\ [][NextRange]_vars

\* C32: readBetweenOffsets(start, end), for a reachable start and an end
\* reachable from start by zero or more reads, returns exactly the records
\* with emission ordinals start.total_sent, ..., end.total_sent - 1: none
\* when end = start, several batches' worth when end is several reads ahead.
RangeIsRead ==
    (pc = "idle" /\ result.op = "readBetweenOffsets") =>
        /\ Len(result.batch) = result.end.total_sent - result.start.total_sent
        /\ Keys(result.batch) = Between(result.start, result.end, MaxAhead)

\* ------------------------------------------------------------------------
\* the utterance_delay option (line 113): float(options.get(..)) of any
\* value; the delays tried are none, the smallest, a microsecond, and the
\* default
Delays == {0, 1, DelayParts, DEFAULT_UTTERANCE_DELAY}

InitDelay ==
    /\ loop \in BOOLEAN
    /\ max_utterances \in {-1, MaxUtterancesLimit}
    /\ utterance_delay \in Delays
    /\ conversation_delay = DEFAULT_CONVERSATION_DELAY
    /\ conversations \in Corpora
    /\ parsed = Len(conversations)
    /\ pc = "idle"
    /\ Fields
    /\ NoServer

\* one reader instance: the reads of the stream and the reads of the
\* latest start offset again
NextDelay ==
    \/ pc = "idle" /\ \E c \in {x \in Calls : x[1] = "read"} :
                          ReadNothing(c[1], c[2], c[3])
    \/ pc = "idle" /\ \E c \in {x \in Calls : x[1] = "read"} :
                          ReadBegin(c[1], c[2], c[3])
    \/ LoopBack
    \/ EndOfConversations
    \/ NextConversation
    \/ EmitUtterance
    \/ ReadReturn

SpecDelay == InitDelay /\ [][NextDelay]_vars

\* the emission ordinal of record i of call c
Ordinal(c, i) == c.start.total_sent + i - 1

\* the batch of the stream's next read, while that read runs
NextBatchOfStream ==
    IF pc # "idle" /\ call = "read" /\ start = position /\ last.op = "read"
      THEN batch ELSE <<>>

\* a read of the latest start offset again has the timestamps of the first
RereadSameTimestamps ==
    (pc = "idle" /\ result.op = "read" /\ last.op = "read"
       /\ result.start = last.start) =>
        /\ Len(result.batch) = Len(last.batch)
        /\ \A i \in 1..Len(last.batch) :
              result.batch[i].timestamp = last.batch[i].timestamp

\* timestamps do not decrease within a batch and from one read of the
\* stream to the next
NonDecreasing ==
    /\ \A i, j \in 1..Len(last.batch) :
          i < j => last.batch[i].timestamp <= last.batch[j].timestamp
    /\ \A i \in 1..Len(last.batch), j \in 1..Len(NextBatchOfStream) :
          last.batch[i].timestamp <= NextBatchOfStream[j].timestamp

\* C33 as stated: the record with ordinal n gets timestamp = start time +
\* n * utterance_delay; a re-read of the same offset yields the same
\* timestamps; timestamps are non-decreasing in emission order; and the
\* same corpus position emitted on a later lap gets a strictly later
\* timestamp when utterance_delay > 0.
TimestampByOrdinal ==
    /\ last.op = "read" =>
          \A i \in 1..Len(last.batch) :
              last.batch[i].timestamp * DelayParts
                  = last.start_time * DelayParts + Ordinal(last, i) * utterance_delay
    /\ RereadSameTimestamps
    /\ NonDecreasing
    /\ utterance_delay > 0 =>
          /\ \A i, j \in 1..Len(last.batch) :
                (i < j /\ Key(last.batch[i]) = Key(last.batch[j])) =>
                    last.batch[i].timestamp < last.batch[j].timestamp
          /\ \A i \in 1..Len(last.batch), j \in 1..Len(NextBatchOfStream) :
                Key(last.batch[i]) = Key(NextBatchOfStream[j]) =>
                    last.batch[i].timestamp < NextBatchOfStream[j].timestamp

\* C33 amended: the record with ordinal n gets timestamp = start time +
\* n * utterance_delay rounded to the microsecond; a re-read of the same
\* offset yields the same timestamps; timestamps are non-decreasing in
\* emission order; and the same corpus position emitted on a later lap gets
\* a strictly later timestamp when the delays between the two emissions add
\* up to more than a microsecond.
TimestampByOrdinalRounded ==
    /\ last.op = "read" =>
          \A i \in 1..Len(last.batch) :
              last.batch[i].timestamp
                  = last.start_time + Microseconds(Ordinal(last, i) * utterance_delay)
    /\ RereadSameTimestamps
    /\ NonDecreasing
    /\ \A i, j \in 1..Len(last.batch) :
          (/\ i < j /\ Key(last.batch[i]) = Key(last.batch[j])
           /\ (j - i) * utterance_delay > DelayParts) =>
              last.batch[i].timestamp < last.batch[j].timestamp
    /\ \A i \in 1..Len(last.batch), j \in 1..Len(NextBatchOfStream) :
          (/\ Key(last.batch[i]) = Key(NextBatchOfStream[j])
           /\ (Len(last.batch) - i + j) * utterance_delay > DelayParts) =>
              last.batch[i].timestamp < NextBatchOfStream[j].timestamp

\* C33 witness: with the smallest delay, a position of the corpus is emitted
\* in one batch and again, a lap later and with a later timestamp, in the
\* next read of the stream
TimestampByOrdinalRoundedWitness ==
    /\ utterance_delay = 1
    /\ loop
    /\ last.op = "read" /\ last.start.total_sent > 0
    /\ NextBatchOfStream # <<>>
    /\ \E i \in 1..Len(last.batch) :
          LET j == Len(NextBatchOfStream)
          IN  /\ Key(last.batch[i]) = Key(NextBatchOfStream[j])
              /\ (Len(last.batch) - i + j) * utterance_delay > DelayParts
              /\ last.batch[i].timestamp < NextBatchOfStream[j].timestamp

=============================================================================
